---- MODULE Spec2Model ----
(***************************************************************************)
(* Model of kanboard_mcp.client.KanboardClient: the session (connect,      *)
(* disconnect, is_connected), the retry loop of _execute_with_retry, the   *)
(* call_api wrapper and the two diagnostic operations test_connection and  *)
(* get_server_info.  The transport (the kanboard library's Client) is      *)
(* external: every call made through it ends in one of a small set of      *)
(* outcomes, chosen nondeterministically.                                  *)
(*                                                                         *)
(* Each caller is a call site that runs one public operation at a time on  *)
(* the one shared client instance.  The operations are modelled step by    *)
(* step, one step per transport call or loop position, because the         *)
(* transport's answer to each call is an input of its own.                 *)
(***************************************************************************)
EXTENDS Integers, Sequences, FiniteSets, TLC

----------------------------------------------------------------------------
(* Bounds of the model *)

\* config.server.max_retries ranges over 0..MaxRetriesBound
MaxRetriesBound == 2

\* number of call sites holding the client
NumCallers == 2

\* pieces of a URL after its scheme
MaxUrlTail == 2

Callers == 1..NumCallers

----------------------------------------------------------------------------
(* The transport: what a call through the kanboard.Client handle can do *)

\* the remote operations the model calls; get_me is the identity check
Methods == {"get_me", "get_version", "get_all_projects", "get_comment"}

\* the methods call_api is invoked with by the callers of the model
ApiMethods == {"get_me", "get_all_projects"}

\* hasattr(e, 'code') is false
NoCode == -1

\* e.code exists and is None
NoneCode == -2

\* words of the failure messages, and str.lower() on each of them
Lower(w) ==
    CASE w = "Unauthorized" -> "unauthorized"
      [] w = "AUTHENTICATION" -> "authentication"
      [] w = "Forbidden" -> "forbidden"
      [] w = "Not" -> "not"
      [] w = "Found" -> "found"
      [] w = "Internal" -> "internal"
      [] w = "Server" -> "server"
      [] w = "Error" -> "error"
      [] OTHER -> w

\* a raised exception of the transport: its Python type, its message (a
\* sequence of words) and its code attribute (NoCode when it has none)
Raised(exc, msg, code) ==
    [tag |-> "raise", exc |-> exc, msg |-> msg, code |-> code, value |-> "-"]

\* a returned value: "null" is None, "payload" a parsed JSON object (a
\* dict), "false" a parsed JSON value that is neither (a bool, a list, ...)
Returned(v) ==
    [tag |-> "ok", exc |-> "-", msg |-> <<>>, code |-> NoCode, value |-> v]

\* no outcome yet (last_exception = None, no first attempt yet)
NoRaw == [tag |-> "none", exc |-> "-", msg |-> <<>>, code |-> NoCode, value |-> "-"]

RawFailures ==
    { Raised("kanboard.ClientError", <<"Unauthorized">>, NoCode),
      Raised("kanboard.ClientError", <<"AUTHENTICATION", "required">>, 401),
      Raised("kanboard.ClientError", <<"Forbidden">>, 403),
      Raised("kanboard.ClientError", <<"Not", "Found">>, 404),
      Raised("kanboard.ClientError", <<"Internal", "Server", "Error">>, 500),
      Raised("kanboard.ClientError", <<"timed", "out">>, NoCode),
      Raised("kanboard.ClientError", <<"empty", "response">>, NoneCode),
      Raised("Exception", <<"unexpected", "failure">>, NoCode) }

RawOutcomes ==
    {Returned("null"), Returned("payload"), Returned("false")} \cup RawFailures

\* "kw" in str(e).lower()
MessageContains(f, kw) == \E i \in DOMAIN f.msg : Lower(f.msg[i]) = kw

----------------------------------------------------------------------------
(* The error kinds of the client and their messages *)

\* An exception of the KanboardClientError family.  Its message is an f-string:
\* text is the fixed part, method the interpolated method name ("-" when the
\* message has none), attempts the interpolated attempt count (0 when the
\* message has none), cause the words of the interpolated inner exception.
KanboardError(cls, text, method, attempts, cause) ==
    [cls |-> cls, text |-> text, method |-> method, attempts |-> attempts,
     cause |-> cause]

NoError == KanboardError("-", "-", "-", 0, <<>>)

\* str(e): the message without the class
Str(e) == [text |-> e.text, method |-> e.method, attempts |-> e.attempts,
           cause |-> e.cause]

\* isinstance(e, cls) inside the KanboardClientError hierarchy
IsKanboardClientError(e) ==
    e.cls \in {"KanboardClientError", "KanboardConnectionError",
               "KanboardAuthenticationError", "KanboardAPIError"}

----------------------------------------------------------------------------
(* Configuration: config.py *)

\* A URL is a sequence of pieces: the scheme name with its colon, single
\* characters ("/" and "a", any other character), and the file name
\* "jsonrpc.php", which stands for its eleven characters.
UrlChars == {"a", "/", "jsonrpc.php"}

Schemes == {<<>>, <<"http:", "/", "/">>, <<"https:", "/", "/">>,
            <<"ftp:", "/", "/">>}

\* the URLs of the model: a scheme or none, then at most MaxUrlTail pieces
Urls ==
    {p \o t : p \in Schemes,
              t \in UNION {[1..n -> UrlChars] : n \in 0..MaxUrlTail}}

\* str.startswith and str.endswith
StartsWith(v, prefix) ==
    Len(v) >= Len(prefix) /\ SubSeq(v, 1, Len(prefix)) = prefix

EndsWith(v, suffix) ==
    Len(v) >= Len(suffix)
        /\ SubSeq(v, Len(v) - Len(suffix) + 1, Len(v)) = suffix

\* what a validator does with a value: returns it (changed or not) or
\* raises ValueError
Valid(v) == [ok |-> TRUE, value |-> v, error |-> "-"]
Invalid(v, msg) == [ok |-> FALSE, value |-> v, error |-> msg]

\* faulty variant: the trailing slash is not looked at
validate_url_AlwaysAddsSlash(v) ==
    IF v = <<>> THEN Invalid(v, "Kanboard URL is required")
    ELSE IF ~(StartsWith(v, <<"http:", "/", "/">>)
                \/ StartsWith(v, <<"https:", "/", "/">>))
    THEN Invalid(v, "URL must start with http:// or https://")
    ELSE IF ~EndsWith(v, <<"/", "jsonrpc.php">>)
    THEN Valid(v \o <<"/", "jsonrpc.php">>)
    ELSE Valid(v)

\* KanboardConfig.validate_url
validate_url(v) ==
    IF v = <<>> THEN Invalid(v, "Kanboard URL is required")
    ELSE IF ~(StartsWith(v, <<"http:", "/", "/">>)
                \/ StartsWith(v, <<"https:", "/", "/">>))
    THEN Invalid(v, "URL must start with http:// or https://")
    ELSE IF ~EndsWith(v, <<"/", "jsonrpc.php">>)
    THEN IF EndsWith(v, <<"/">>)
         THEN Valid(v \o <<"jsonrpc.php">>)
         ELSE Valid(v \o <<"/", "jsonrpc.php">>)
    ELSE Valid(v)

\* KanboardConfig.validate_password
validate_password(v) ==
    IF v = "" THEN Invalid(v, "API token or password is required") ELSE Valid(v)

\* faulty variant: zero is accepted
validate_timeout_AcceptsZero(v) ==
    IF v < 0 THEN Invalid(v, "Timeout must be positive") ELSE Valid(v)

\* KanboardConfig.validate_timeout
validate_timeout(v) ==
    IF v <= 0 THEN Invalid(v, "Timeout must be positive") ELSE Valid(v)

\* MCPServerConfig.validate_max_retries
validate_max_retries(v) ==
    IF v < 0 THEN Invalid(v, "Max retries must be non-negative") ELSE Valid(v)

\* MCPServerConfig.validate_retry_delay
validate_retry_delay(v) ==
    IF v < 0 THEN Invalid(v, "Retry delay must be non-negative") ELSE Valid(v)

\* the environment: KANBOARD_URL, KANBOARD_API_TOKEN, KANBOARD_TIMEOUT,
\* KANBOARD_MAX_RETRIES, KANBOARD_RETRY_DELAY, the numbers already parsed;
\* an unset KANBOARD_URL or KANBOARD_API_TOKEN reads as the empty string
Environment(url, password, timeout, retries, delay) ==
    [url |-> url, password |-> password, timeout |-> timeout,
     max_retries |-> retries, retry_delay |-> delay]

Envs ==
    {Environment(u, p, t, r, d) :
        u \in Urls, p \in {"", "token"}, t \in {-1, 0, 30},
        r \in (-1)..MaxRetriesBound, d \in {-1, 0, 1}}

\* a Config object; NoConfig when none was constructed
NoConfig ==
    [loaded |-> FALSE, url |-> <<>>, password |-> "", timeout |-> 0,
     max_retries |-> 0, retry_delay |-> 0]

\* what a function that builds or checks a Config does: returns it, or
\* raises an exception with the message error
Loaded(cfg) == [error |-> "-", config |-> cfg]
Failed(msg) == [error |-> msg, config |-> NoConfig]

\* Config.from_env: the two models are constructed, each one running its
\* validators on the values read
from_env(e) ==
    LET url == validate_url(e.url)
        password == validate_password(e.password)
        timeout == validate_timeout(e.timeout)
        retries == validate_max_retries(e.max_retries)
        delay == validate_retry_delay(e.retry_delay)
    IN  IF ~url.ok THEN Failed(url.error)
        ELSE IF ~password.ok THEN Failed(password.error)
        ELSE IF ~timeout.ok THEN Failed(timeout.error)
        ELSE IF ~retries.ok THEN Failed(retries.error)
        ELSE IF ~delay.ok THEN Failed(delay.error)
        ELSE Loaded([loaded |-> TRUE, url |-> url.value,
                     password |-> password.value, timeout |-> timeout.value,
                     max_retries |-> retries.value,
                     retry_delay |-> delay.value])

\* Config.validate_config
validate_config(cfg) ==
    IF cfg.url = <<>>
    THEN Failed("KANBOARD_URL environment variable is required")
    ELSE IF cfg.password = ""
    THEN Failed("KANBOARD_API_TOKEN environment variable is required")
    ELSE Loaded(cfg)

\* faulty variant: the token is read without any check
load_config_TokenUnchecked(e) ==
    LET r == from_env([e EXCEPT !.password = "unchecked"]) IN
    IF r.error # "-" THEN Failed("Configuration error")
    ELSE Loaded([r.config EXCEPT !.password = e.password])

\* load_config: every exception of from_env and validate_config is raised
\* again as ValueError("Configuration error: ...")
load_config(e) ==
    LET r == from_env(e) IN
    IF r.error # "-" THEN Failed("Configuration error")
    ELSE IF validate_config(r.config).error # "-"
    THEN Failed("Configuration error")
    ELSE Loaded(r.config)

\* the environment of a client with the retry budget m
EmbeddedEnv(m) ==
    Environment(<<"https:", "/", "/", "a", "/", "jsonrpc.php">>, "token",
                30, m, 1)

----------------------------------------------------------------------------
(* The process: server.py, main *)

\* sys.exit(1) of the three except clauses of main
ExitConfigurationError == 1
ExitConnectionError == 1
ExitUnexpectedError == 1

\* the process while main() runs: phase is where it is
Process(phase) == [phase |-> phase, status |-> 0, message |-> "-"]

\* the process after sys.exit(status)
Exited(status, msg) == [phase |-> "exited", status |-> status, message |-> msg]

\* faulty variant: every category has a status of its own
main_except_DistinctStatus(exc) ==
    IF exc = "ValueError" THEN Exited(2, "Configuration error")
    ELSE IF exc = "ConnectionError"
    THEN Exited(ExitConnectionError, "Connection error")
    ELSE Exited(3, "Unexpected error")

\* the except clauses of main, for an exception of type exc
main_except(exc) ==
    IF exc = "ValueError"
    THEN Exited(ExitConfigurationError, "Configuration error")
    ELSE IF exc = "ConnectionError"
    THEN Exited(ExitConnectionError, "Connection error")
    ELSE Exited(ExitUnexpectedError, "Unexpected error")

----------------------------------------------------------------------------
(* State *)

VARIABLES
    _client,      \* KanboardClient._client: None or the transport handle
    _connected,   \* KanboardClient._connected
    max_retries,  \* config.server.max_retries, fixed at construction
    call,         \* per caller: the position and locals of the running call
    env,          \* the environment variables the configuration is read from
    config,       \* the Config load_config returned
    proc          \* the process: where main() is, and its exit status

vars == <<_client, _connected, max_retries, call, env, config, proc>>

None == "None"

\* the handle kanboard.Client(...) returns
Handle == "kanboard.Client"

\* outcome of an operation or of _execute_with_retry: nothing yet, a
\* returned value, or a raised error
NoOutcome == [kind |-> "none", value |-> "-", error |-> NoError]
Return(v) == [kind |-> "return", value |-> v, error |-> NoError]
Raise(e) == [kind |-> "raise", value |-> "-", error |-> e]

\* the dict test_connection and get_server_info return: a key the dict does
\* not have is "-", a None value is "null"
Report(conn, user, version, info, err) ==
    [connected |-> conn, user |-> user, server_version |-> version,
     user_info |-> info, error |-> err]

NoReport == Report(FALSE, "-", "-", "-", Str(NoError))

\* the dict a tool returns: {"success": True, "data": ...} or
\* {"success": False, "error": str(e)}; a key it does not have is "-"
Envelope(success, data, err) == [success |-> success, data |-> data, error |-> err]

NoEnvelope == Envelope(FALSE, "-", Str(NoError))

\* a caller that runs nothing
Idle ==
    [pc |-> "idle", op |-> "-", method |-> "-", stage |-> 0,
     attempt |-> 0, last_exception |-> NoRaw, user_info |-> "-",
     \* history of the running _execute_with_retry call
     first |-> NoRaw, invocations |-> 0, remote_failures |-> 0,
     unexpected_failures |-> 0, reconnects |-> 0, sleeps |-> 0,
     \* history of the connect() calls made on behalf of the operation
     was_connected |-> FALSE, had_client |-> FALSE, creates |-> 0,
     identity_checks |-> 0, identity |-> NoRaw,
     \* what _execute_with_retry gave call_api, and call_api its caller
     executed |-> NoOutcome, api |-> NoOutcome,
     \* what the public operation gave its caller, and the dict it returned
     out |-> NoOutcome, report |-> NoReport,
     \* the dict a tool returned
     envelope |-> NoEnvelope,
     \* whether another call was between the check of line 93 and the end of
     \* its connect() while this call was
     raced |-> FALSE]

\* a client constructed from a valid configuration and used outside main()
\* (create_client, or the context manager)
Init ==
    /\ _client = None
    /\ _connected = FALSE
    /\ max_retries \in 0..MaxRetriesBound
    /\ call = [c \in Callers |-> Idle]
    /\ env = EmbeddedEnv(max_retries)
    /\ config = load_config(env).config
    /\ proc = Process("embedded")

----------------------------------------------------------------------------
(* Session: connect, disconnect, is_connected *)

\* faulty variant: the flag is not consulted
is_connected_HandleOnly(cl, conn) == cl # None

\* KanboardClient.is_connected
is_connected(cl, conn) == conn /\ cl # None

\* the except clauses of connect's try statement, in order; the first one the
\* raised exception is an instance of handles it
ConnectHandler(x) ==
    IF x.exc = "kanboard.ClientError"
    THEN KanboardError("KanboardAuthenticationError", "Authentication failed",
                       "-", 0, x.msg)
    ELSE KanboardError("KanboardConnectionError", "Connection failed",
                       "-", 0, x.msg)

\* what the body of connect's try statement raises, NoRaw when it completes:
\* create_ok is whether kanboard.Client(...) constructs, getme what the
\* identity check does on the new handle
ConnectBody(create_ok, getme) ==
    IF ~create_ok
    THEN Raised("KanboardConnectionError",
                <<"Failed", "to", "create", "Kanboard", "client">>, NoCode)
    ELSE IF getme.tag = "raise" THEN getme
    ELSE IF getme.value = "null"
    THEN Raised("KanboardAuthenticationError",
                <<"Authentication", "failed", "-", "invalid", "credentials">>,
                NoCode)
    ELSE IF getme.value # "payload"
    THEN \* result.get('name', 'Unknown') on a value that is not a dict
         Raised("AttributeError",
                <<"object", "has", "no", "attribute", "get">>, NoCode)
    ELSE NoRaw

\* whether connect's try body reaches self._connected = True: the handle
\* was constructed and the identity check returned a value other than None
ConnectSetsFlag(create_ok, getme) ==
    create_ok /\ getme.tag = "ok" /\ getme.value # "null"

\* the keyword arguments _create_client passes to kanboard.Client; the
\* username, the header name and verify_ssl are at their defaults
ClientArguments(cfg) ==
    [url |-> cfg.url, username |-> "jsonrpc", password |-> cfg.password,
     auth_header |-> "Authorization", insecure |-> FALSE]

\* faulty variant: the early return for a connected client is missing
connect_NoEarlyReturn(cl, conn, create_ok, getme) ==
    LET x == ConnectBody(create_ok, getme) IN
    [client |-> IF create_ok THEN Handle ELSE cl,
     connected |-> IF ConnectSetsFlag(create_ok, getme) THEN TRUE ELSE conn,
     error |-> IF x = NoRaw THEN NoError ELSE ConnectHandler(x),
     creates |-> 1,
     identity_checks |-> IF create_ok THEN 1 ELSE 0,
     identity |-> IF create_ok THEN getme ELSE NoRaw]

\* KanboardClient.connect: the new _client and _connected, the error raised
\* (NoError when it returns), and how many handles it constructed and how
\* many identity checks it issued
connect(cl, conn, create_ok, getme) ==
    IF conn /\ cl # None
    THEN [client |-> cl, connected |-> conn, error |-> NoError,
          creates |-> 0, identity_checks |-> 0, identity |-> NoRaw]
    ELSE LET x == ConnectBody(create_ok, getme) IN
         [client |-> IF create_ok THEN Handle ELSE cl,
          connected |-> IF ConnectSetsFlag(create_ok, getme) THEN TRUE ELSE conn,
          error |-> IF x = NoRaw THEN NoError ELSE ConnectHandler(x),
          creates |-> 1,
          identity_checks |-> IF create_ok THEN 1 ELSE 0,
          identity |-> IF create_ok THEN getme ELSE NoRaw]

\* faulty variant: the handle is kept, only the flag is reset
disconnect_KeepsHandle(cl, conn) == [client |-> cl, connected |-> FALSE]

\* KanboardClient.disconnect
disconnect(cl, conn) == [client |-> None, connected |-> FALSE]

\* the inputs a connect() call consumes: none when it returns at once
CreateInputs(cl, conn) == IF is_connected(cl, conn) THEN {TRUE} ELSE BOOLEAN
GetMeInputs(cl, conn) == IF is_connected(cl, conn) THEN {NoRaw} ELSE RawOutcomes

----------------------------------------------------------------------------
(* _execute_with_retry: the pure parts *)

\* faulty variant: the loop runs one iteration too many
AttemptRange_OneMore(retries) == 0..(retries + 1)

\* range(self.config.server.max_retries + 1)
AttemptRange(retries) == 0..retries

\* the except clauses of the retry loop's try statement, by line: the first
\* clause the exception is an instance of handles it, so the second
\* kanboard.ClientError clause never does
ExceptClauses == <<"kanboard.ClientError", "kanboard.ClientError", "Exception">>

IsInstance(x, cls) == cls = "Exception" \/ x.exc = cls

Handler(x) ==
    CHOOSE i \in DOMAIN ExceptClauses :
        /\ IsInstance(x, ExceptClauses[i])
        /\ \A j \in 1..(i - 1) : ~IsInstance(x, ExceptClauses[j])

\* "authentication" in str(e).lower() or "unauthorized" in str(e).lower()
IsAuthenticationMessage(x) ==
    MessageContains(x, "authentication") \/ MessageContains(x, "unauthorized")

\* faulty variant: a 5xx status ends the call as well
IsClientStatus_IncludesServerErrors(x) ==
    x.code # NoCode /\ 400 <= x.code /\ x.code < 600

\* hasattr(e, 'code') and 400 <= e.code < 500, for a code that is a number
IsClientStatus(x) == x.code # NoCode /\ 400 <= x.code /\ x.code < 500

\* 400 <= e.code raises TypeError for a code that is no number; the
\* exception leaves the except clause and _execute_with_retry
ComparisonRaises(x) == x.code = NoneCode

TypeError ==
    KanboardError("TypeError", "'<=' not supported", "-", 0,
                  <<"int", "and", "NoneType">>)

\* faulty variant: the 4xx check is missing, so a 4xx response is retried
ApiErrorRaise_AuthOnly(x) ==
    IF IsAuthenticationMessage(x)
    THEN KanboardError("KanboardAuthenticationError", "Authentication failed",
                       "-", 0, x.msg)
    ELSE NoError

\* faulty variant: a 401 or 403 status counts as an authentication failure
ApiErrorRaise_StatusAuth(x) ==
    IF IsAuthenticationMessage(x) \/ x.code \in {401, 403}
    THEN KanboardError("KanboardAuthenticationError", "Authentication failed",
                       "-", 0, x.msg)
    ELSE IF IsClientStatus(x)
    THEN KanboardError("KanboardAPIError", "API error", "-", 0, x.msg)
    ELSE NoError

\* faulty variant: the status is tested before the message
ApiErrorRaise_StatusFirst(x) ==
    IF ComparisonRaises(x) THEN TypeError
    ELSE IF IsClientStatus(x)
    THEN KanboardError("KanboardAPIError", "API error", "-", 0, x.msg)
    ELSE IF IsAuthenticationMessage(x)
    THEN KanboardError("KanboardAuthenticationError", "Authentication failed",
                       "-", 0, x.msg)
    ELSE NoError

\* what the first except clause raises for e, NoError when it falls through
\* to the delay step
ApiErrorRaise(x) ==
    IF IsAuthenticationMessage(x)
    THEN KanboardError("KanboardAuthenticationError", "Authentication failed",
                       "-", 0, x.msg)
    ELSE IF ComparisonRaises(x) THEN TypeError
    ELSE IF IsClientStatus(x)
    THEN KanboardError("KanboardAPIError", "API error", "-", 0, x.msg)
    ELSE NoError

\* faulty variant: a None result counts as a failed attempt
AttemptReturns_NoneFails(x) == x.tag = "ok" /\ x.value # "null"

\* result = method(*args, **kwargs); return result: whatever the method
\* returns ends the call, None included
AttemptReturns(x) == x.tag = "ok"

\* faulty variant: the session is torn down before the raise
RaiseLeavesSession_Disconnected(cl, conn) == disconnect(cl, conn)

\* the session after one of the raises of the first except clause: neither
\* raise is preceded by a call of disconnect or an assignment to the fields
RaiseLeavesSession(cl, conn) == [client |-> cl, connected |-> conn]

\* faulty variant: the call sleeps after the last attempt too
SleepsAfter_EveryAttempt(attempt, retries) == attempt <= retries

\* if attempt < self.config.server.max_retries: time.sleep(...)
SleepsAfter(attempt, retries) == attempt < retries

\* faulty variant: the message reports max_retries, not max_retries + 1
ExhaustedError_RetriesAsCount(method, retries, last) ==
    KanboardError(IF IsInstance(last, "kanboard.ClientError")
                  THEN "KanboardAPIError" ELSE "KanboardClientError",
                  "failed after attempts", method, retries, last.msg)

\* faulty variant: the message leaves the method name out
ExhaustedError_NoMethod(method, retries, last) ==
    KanboardError(IF IsInstance(last, "kanboard.ClientError")
                  THEN "KanboardAPIError" ELSE "KanboardClientError",
                  "failed after attempts", "-", retries + 1, last.msg)

\* the error raised once the loop is over ("All retries exhausted")
ExhaustedError(method, retries, last) ==
    IF last # NoRaw
    THEN IF IsInstance(last, "kanboard.ClientError")
         THEN KanboardError("KanboardAPIError", "API call failed after attempts",
                            method, retries + 1, last.msg)
         ELSE KanboardError("KanboardClientError",
                            "Unexpected error after attempts",
                            method, retries + 1, last.msg)
    ELSE KanboardError("KanboardClientError", "Method failed after attempts",
                       method, retries + 1, <<>>)

\* faulty variant: the except Exception clause is missing
call_api_PassThrough(outcome) == outcome

\* call_api: errors of the KanboardClientError family pass, any other
\* exception is wrapped
call_api(outcome) ==
    IF outcome.kind = "raise" /\ ~IsKanboardClientError(outcome.error)
    THEN Raise(KanboardError("KanboardClientError", "Unexpected error",
                             "-", 0, outcome.error.cause))
    ELSE outcome

----------------------------------------------------------------------------
(* The public operations, continued after a call_api call inside them *)

\* a caller record at the start of a _execute_with_retry call for method m
Execute(r, m) ==
    [r EXCEPT !.pc = "execute", !.method = m, !.attempt = 0,
              !.last_exception = NoRaw, !.first = NoRaw, !.invocations = 0,
              !.remote_failures = 0, !.unexpected_failures = 0,
              !.reconnects = 0, !.sleeps = 0, !.was_connected = FALSE,
              !.had_client = FALSE, !.creates = 0, !.identity_checks = 0, !.identity = NoRaw,
              !.executed = NoOutcome, !.api = NoOutcome]

\* faulty variant: the except clause lets authentication errors through
test_connection_Reraise(r, got) ==
    IF got.kind = "return"
    THEN [r EXCEPT !.pc = "done", !.out = Return("dict"),
                   !.report = Report(TRUE, got.value, "-", "-", Str(NoError))]
    ELSE IF got.error.cls = "KanboardAuthenticationError"
    THEN [r EXCEPT !.pc = "done", !.out = got]
    ELSE [r EXCEPT !.pc = "done", !.out = Return("dict"),
                   !.report = Report(FALSE, "-", "-", "-", Str(got.error))]

\* test_connection, given what call_api("get_me") did
test_connection(r, got) ==
    IF got.kind = "return"
    THEN [r EXCEPT !.pc = "done", !.out = Return("dict"),
                   !.report = Report(TRUE, got.value, "-", "-", Str(NoError))]
    ELSE [r EXCEPT !.pc = "done", !.out = Return("dict"),
                   !.report = Report(FALSE, "-", "-", "-", Str(got.error))]

\* faulty variant: only the identity check is inside the try statement
get_server_info_Reraise(r, got) ==
    IF got.kind = "raise" /\ r.stage = 2
    THEN [r EXCEPT !.pc = "done", !.out = got]
    ELSE IF got.kind = "raise"
    THEN [r EXCEPT !.pc = "done", !.out = Return("dict"),
                   !.report = Report(FALSE, "-", "null", "null", Str(got.error))]
    ELSE IF r.stage = 1
    THEN [Execute(r, "get_version") EXCEPT !.stage = 2, !.user_info = got.value]
    ELSE [r EXCEPT !.pc = "done", !.out = Return("dict"),
                   !.report = Report(TRUE, "-", got.value, r.user_info,
                                     Str(NoError))]

\* faulty variant: the identity payload survives a failed version query
get_server_info_KeepsIdentity(r, got) ==
    IF got.kind = "raise"
    THEN [r EXCEPT !.pc = "done", !.out = Return("dict"),
                   !.report = Report(FALSE, "-", "null",
                                     IF r.stage = 2 THEN r.user_info ELSE "null",
                                     Str(got.error))]
    ELSE IF r.stage = 1
    THEN [Execute(r, "get_version") EXCEPT !.stage = 2, !.user_info = got.value]
    ELSE [r EXCEPT !.pc = "done", !.out = Return("dict"),
                   !.report = Report(TRUE, "-", got.value, r.user_info,
                                     Str(NoError))]

\* get_server_info, given what the call_api call of stage r.stage did:
\* stage 1 is call_api("get_me"), stage 2 call_api("get_version")
get_server_info(r, got) ==
    IF got.kind = "raise"
    THEN [r EXCEPT !.pc = "done", !.out = Return("dict"),
                   !.report = Report(FALSE, "-", "null", "null", Str(got.error))]
    ELSE IF r.stage = 1
    THEN [Execute(r, "get_version") EXCEPT !.stage = 2, !.user_info = got.value]
    ELSE [r EXCEPT !.pc = "done", !.out = Return("dict"),
                   !.report = Report(TRUE, "-", got.value, r.user_info,
                                     Str(NoError))]

\* faulty variant: the tool catches KanboardAPIError only
tool_CatchesApiErrorOnly(r, got) ==
    IF got.kind = "return"
    THEN [r EXCEPT !.pc = "done", !.out = Return("dict"),
                   !.envelope = Envelope(TRUE, got.value, Str(NoError))]
    ELSE IF got.error.cls = "KanboardAPIError"
    THEN [r EXCEPT !.pc = "done", !.out = Return("dict"),
                   !.envelope = Envelope(FALSE, "-", Str(got.error))]
    ELSE [r EXCEPT !.pc = "done", !.out = got]

\* a tool of a tools module (getComment), given what call_api did: the
\* except clause catches KanboardClientError and its subclasses
tool(r, got) ==
    IF got.kind = "return"
    THEN [r EXCEPT !.pc = "done", !.out = Return("dict"),
                   !.envelope = Envelope(TRUE, got.value, Str(NoError))]
    ELSE IF IsKanboardClientError(got.error)
    THEN [r EXCEPT !.pc = "done", !.out = Return("dict"),
                   !.envelope = Envelope(FALSE, "-", Str(got.error))]
    ELSE [r EXCEPT !.pc = "done", !.out = got]

\* the server's test_connection and get_server_info tools, around the
\* client operation of the same name once it is over (r.pc = "done")
connection_tool(r) ==
    IF r.pc # "done" THEN r
    ELSE IF r.out.kind = "raise"
    THEN [r EXCEPT !.out = Return("dict"),
                   !.envelope = Envelope(FALSE, "-", Str(r.out.error))]
    ELSE [r EXCEPT !.envelope = Envelope(TRUE, "dict", Str(NoError))]

\* the caller record once _execute_with_retry ended with outcome: call_api
\* passes it on to the operation that called it
ExecuteEnds(r, outcome) ==
    LET got == call_api(outcome)
        q == [r EXCEPT !.executed = outcome, !.api = got]
    IN  CASE r.op = "call_api" -> [q EXCEPT !.pc = "done", !.out = got]
          [] r.op = "test_connection" -> test_connection(q, got)
          [] r.op = "get_server_info" -> get_server_info(q, got)
          [] r.op = "tool" -> tool(q, got)
          [] r.op = "test_connection_tool" ->
                connection_tool(test_connection(q, got))
          [] r.op = "get_server_info_tool" ->
                connection_tool(get_server_info(q, got))

----------------------------------------------------------------------------
(* Actions *)

\* calls on the one client instance are serialized: a call starts only when
\* no other call runs
Serialized(c) == \A d \in Callers \ {c} : call[d].pc = "idle"

\* the inputs of the reconnect of the second except clause
ReconnectCreateInputs(x) == IF Handler(x) = 2 THEN BOOLEAN ELSE {TRUE}
ReconnectGetMeInputs(x) == IF Handler(x) = 2 THEN RawOutcomes ELSE {NoRaw}

\* a caller calls connect()
Connect(c) ==
    /\ call[c].pc = "idle"
    /\ Serialized(c)
    /\ \E create_ok \in CreateInputs(_client, _connected),
          getme \in GetMeInputs(_client, _connected) :
        LET k == connect(_client, _connected, create_ok, getme) IN
        /\ _client' = k.client
        /\ _connected' = k.connected
        /\ call' = [call EXCEPT ![c] =
              [Idle EXCEPT !.pc = "done", !.op = "connect",
                           !.was_connected = is_connected(_client, _connected),
                           !.had_client = (_client # None),
                           !.creates = k.creates,
                           !.identity_checks = k.identity_checks,
                           !.identity = k.identity,
                           !.out = IF k.error = NoError THEN Return("null")
                                   ELSE Raise(k.error)]]
    /\ UNCHANGED <<max_retries, env, config, proc>>

\* a caller calls disconnect()
Disconnect(c) ==
    /\ call[c].pc = "idle"
    /\ Serialized(c)
    /\ LET k == disconnect(_client, _connected) IN
        /\ _client' = k.client
        /\ _connected' = k.connected
    /\ call' = [call EXCEPT ![c] =
          [Idle EXCEPT !.pc = "done", !.op = "disconnect",
                       !.was_connected = is_connected(_client, _connected),
                       !.had_client = (_client # None),
                       !.out = Return("null")]]
    /\ UNCHANGED <<max_retries, env, config, proc>>

\* a Python bool as the value an operation returns
Bool(b) == IF b THEN "True" ELSE "False"

\* a caller calls is_connected()
IsConnected(c) ==
    /\ call[c].pc = "idle"
    /\ Serialized(c)
    /\ call' = [call EXCEPT ![c] =
          [Idle EXCEPT !.pc = "done", !.op = "is_connected",
                       !.had_client = (_client # None),
                       !.out = Return(Bool(is_connected(_client, _connected)))]]
    /\ UNCHANGED <<_client, _connected, max_retries, env, config, proc>>

\* a caller calls call_api(m)
CallApi(c) ==
    /\ call[c].pc = "idle"
    /\ Serialized(c)
    /\ \E m \in ApiMethods :
        call' = [call EXCEPT ![c] = Execute([Idle EXCEPT !.op = "call_api"], m)]
    /\ UNCHANGED <<_client, _connected, max_retries, env, config, proc>>

\* a caller calls test_connection()
TestConnection(c) ==
    /\ call[c].pc = "idle"
    /\ Serialized(c)
    /\ call' = [call EXCEPT ![c] =
          Execute([Idle EXCEPT !.op = "test_connection"], "get_me")]
    /\ UNCHANGED <<_client, _connected, max_retries, env, config, proc>>

\* a caller calls get_server_info()
GetServerInfo(c) ==
    /\ call[c].pc = "idle"
    /\ Serialized(c)
    /\ call' = [call EXCEPT ![c] =
          Execute([Idle EXCEPT !.op = "get_server_info", !.stage = 1], "get_me")]
    /\ UNCHANGED <<_client, _connected, max_retries, env, config, proc>>

\* faulty variant: a failed initial connect is swallowed and the loop runs
ExecuteEntry_SwallowsConnectError(c) ==
    /\ call[c].pc = "execute"
    /\ \E create_ok \in CreateInputs(_client, _connected),
          getme \in GetMeInputs(_client, _connected) :
        LET k == connect(_client, _connected, create_ok, getme) IN
        /\ _client' = k.client
        /\ _connected' = k.connected
        /\ call' = [call EXCEPT ![c] =
              [@ EXCEPT !.pc = "loop", !.attempt = 0, !.last_exception = NoRaw,
                        !.was_connected = is_connected(_client, _connected),
                        !.had_client = (_client # None),
                        !.creates = k.creates,
                        !.identity_checks = k.identity_checks,
                        !.identity = k.identity]]
    /\ UNCHANGED <<max_retries, env, config, proc>>

\* the host runtime calls a tool of a tools module
Tool(c) ==
    /\ call[c].pc = "idle"
    /\ Serialized(c)
    /\ call' = [call EXCEPT ![c] =
          Execute([Idle EXCEPT !.op = "tool"], "get_comment")]
    /\ UNCHANGED <<_client, _connected, max_retries, env, config, proc>>

\* the host runtime calls the server's test_connection tool
TestConnectionTool(c) ==
    /\ call[c].pc = "idle"
    /\ Serialized(c)
    /\ call' = [call EXCEPT ![c] =
          Execute([Idle EXCEPT !.op = "test_connection_tool"], "get_me")]
    /\ UNCHANGED <<_client, _connected, max_retries, env, config, proc>>

\* the host runtime calls the server's get_server_info tool
GetServerInfoTool(c) ==
    /\ call[c].pc = "idle"
    /\ Serialized(c)
    /\ call' = [call EXCEPT ![c] =
          Execute([Idle EXCEPT !.op = "get_server_info_tool", !.stage = 1],
                  "get_me")]
    /\ UNCHANGED <<_client, _connected, max_retries, env, config, proc>>

\* _execute_with_retry up to the loop: connect when not connected
ExecuteEntry(c) ==
    /\ call[c].pc = "execute"
    /\ \E create_ok \in CreateInputs(_client, _connected),
          getme \in GetMeInputs(_client, _connected) :
        LET r == call[c]
            k == connect(_client, _connected, create_ok, getme)
            h == [r EXCEPT !.was_connected = is_connected(_client, _connected),
                           !.had_client = (_client # None),
                           !.creates = k.creates,
                           !.identity_checks = k.identity_checks,
                           !.identity = k.identity]
        IN
        /\ _client' = k.client
        /\ _connected' = k.connected
        /\ call' = [call EXCEPT ![c] =
              IF k.error # NoError
              THEN ExecuteEnds(h, Raise(k.error))
              ELSE [h EXCEPT !.pc = "loop", !.attempt = 0,
                             !.last_exception = NoRaw]]
    /\ UNCHANGED <<max_retries, env, config, proc>>

\* one iteration of the loop, up to the delay: the try statement
Attempt(c) ==
    /\ call[c].pc = "loop"
    /\ call[c].attempt \in AttemptRange(max_retries)
    /\ \E o \in RawOutcomes :
       \E create_ok \in ReconnectCreateInputs(o),
          getme \in ReconnectGetMeInputs(o) :
        LET r == call[c]
            \* what the try body does: no handle, or the transport's answer
            x == IF _client = None
                 THEN Raised("KanboardConnectionError",
                             <<"Client", "not", "connected">>, NoCode)
                 ELSE o
            h == [r EXCEPT !.invocations = @ + (IF _client = None THEN 0 ELSE 1),
                           !.first = IF r.attempt = 0 THEN x ELSE @]
            failed == [h EXCEPT !.pc = "delay", !.last_exception = x]
            k == connect(None, FALSE, create_ok, getme)
        IN
        IF AttemptReturns(x)
        THEN /\ call' = [call EXCEPT ![c] = ExecuteEnds(h, Return(x.value))]
             /\ UNCHANGED <<_client, _connected>>
        ELSE IF Handler(x) = 1
        THEN /\ call' = [call EXCEPT ![c] =
                   IF ApiErrorRaise(x) # NoError
                   THEN ExecuteEnds([h EXCEPT !.last_exception = x],
                                    Raise(ApiErrorRaise(x)))
                   ELSE [failed EXCEPT !.remote_failures = @ + 1]]
             /\ IF ApiErrorRaise(x) # NoError
                THEN /\ _client' = RaiseLeavesSession(_client, _connected).client
                     /\ _connected' =
                           RaiseLeavesSession(_client, _connected).connected
                ELSE UNCHANGED <<_client, _connected>>
        ELSE IF Handler(x) = 2
        THEN /\ call' = [call EXCEPT ![c] =
                   [failed EXCEPT !.remote_failures = @ + 1,
                                  !.reconnects = @ + 1,
                                  !.creates = @ + k.creates,
                                  !.identity_checks = @ + k.identity_checks]]
             /\ _client' = k.client
             /\ _connected' = k.connected
        ELSE /\ call' = [call EXCEPT ![c] =
                   [failed EXCEPT !.unexpected_failures = @ + 1]]
             /\ UNCHANGED <<_client, _connected>>
    /\ UNCHANGED <<max_retries, env, config, proc>>

\* the end of an iteration: sleep unless it was the last one
Delay(c) ==
    /\ call[c].pc = "delay"
    /\ call' = [call EXCEPT ![c] =
          [@ EXCEPT !.pc = "loop",
                    !.sleeps = @ + (IF SleepsAfter(call[c].attempt, max_retries)
                                    THEN 1 ELSE 0),
                    !.attempt = @ + 1]]
    /\ UNCHANGED <<_client, _connected, max_retries, env, config, proc>>

\* the loop is over without a return: all retries exhausted
Exhausted(c) ==
    /\ call[c].pc = "loop"
    /\ call[c].attempt \notin AttemptRange(max_retries)
    /\ call' = [call EXCEPT ![c] =
          ExecuteEnds(call[c],
                      Raise(ExhaustedError(call[c].method, max_retries,
                                           call[c].last_exception)))]
    /\ UNCHANGED <<_client, _connected, max_retries, env, config, proc>>

\* the operation's result is handed to the caller
Finish(c) ==
    /\ call[c].pc = "done"
    /\ call' = [call EXCEPT ![c] = Idle]
    /\ UNCHANGED <<_client, _connected, max_retries, env, config, proc>>

Next ==
    \E c \in Callers :
        \/ Connect(c)
        \/ Disconnect(c)
        \/ IsConnected(c)
        \/ CallApi(c)
        \/ TestConnection(c)
        \/ GetServerInfo(c)
        \/ Tool(c)
        \/ TestConnectionTool(c)
        \/ GetServerInfoTool(c)
        \/ ExecuteEntry(c)
        \/ Attempt(c)
        \/ Delay(c)
        \/ Exhausted(c)
        \/ Finish(c)

Spec == Init /\ [][Next]_vars

----------------------------------------------------------------------------
(* Startup: main() from the environment to the serving of tools *)

\* the thread that runs main()
MainThread == CHOOSE c \in Callers : \A d \in Callers : c <= d

\* the process is started: nothing is loaded and no client exists
StartupInit ==
    /\ env \in Envs
    /\ config = NoConfig
    /\ proc = Process("main")
    /\ _client = None
    /\ _connected = FALSE
    /\ max_retries = 0
    /\ call = [c \in Callers |-> Idle]

\* main: config = load_config(); a ValueError ends the process
LoadConfig ==
    /\ proc.phase = "main"
    /\ LET r == load_config(env) IN
        IF r.error = "-"
        THEN /\ config' = r.config
             /\ proc' = Process("loaded")
        ELSE /\ config' = config
             /\ proc' = main_except("ValueError")
    /\ UNCHANGED <<_client, _connected, max_retries, call, env>>

\* main: server = create_server(config); the client is constructed with
\* the configuration, without a handle
CreateServer ==
    /\ proc.phase = "loaded"
    /\ _client' = None
    /\ _connected' = FALSE
    /\ max_retries' = config.max_retries
    /\ proc' = Process("created")
    /\ UNCHANGED <<call, env, config>>

\* run: up to the call of client.test_connection()
Run ==
    /\ proc.phase = "created"
    /\ call[MainThread].pc = "idle"
    /\ call' = [call EXCEPT ![MainThread] =
          Execute([Idle EXCEPT !.op = "test_connection"], "get_me")]
    /\ proc' = Process("running")
    /\ UNCHANGED <<_client, _connected, max_retries, env, config>>

\* the steps of the startup connection test
RunExecuteEntry == proc.phase = "running" /\ ExecuteEntry(MainThread)
RunAttempt == proc.phase = "running" /\ Attempt(MainThread)
RunDelay == proc.phase = "running" /\ Delay(MainThread)
RunExhausted == proc.phase = "running" /\ Exhausted(MainThread)

\* faulty variant: the result of the connection test is not looked at
RunServes_IgnoresResult ==
    /\ proc.phase = "running"
    /\ call[MainThread].pc = "done"
    /\ proc' = Process("serving")
    /\ UNCHANGED <<_client, _connected, max_retries, call, env, config>>

\* run: the connection test has returned; mcp.run() serves the tools, or
\* ConnectionError is raised and main ends the process
RunServes ==
    /\ proc.phase = "running"
    /\ call[MainThread].pc = "done"
    /\ proc' = IF call[MainThread].report.connected
               THEN Process("serving")
               ELSE main_except("ConnectionError")
    /\ UNCHANGED <<_client, _connected, max_retries, call, env, config>>

StartupNext ==
    \/ LoadConfig
    \/ CreateServer
    \/ Run
    \/ RunExecuteEntry
    \/ RunAttempt
    \/ RunDelay
    \/ RunExhausted
    \/ RunServes

StartupSpec == StartupInit /\ [][StartupNext]_vars

----------------------------------------------------------------------------
(* Concurrent calls: several threads in _execute_with_retry on one client,
   with no lock; connect() runs statement by statement *)

\* the two threads whose calls run at the same time
Racers == CHOOSE S \in SUBSET Callers : Cardinality(S) = 2

\* the kanboard.Client object the call of c constructed
HandleOf(c) == "kanboard.Client#" \o ToString(c)

\* the call is between the check of line 93, which found the client not
\* connected, and the end of its connect()
InEntry(r) == r.pc \in {"connect", "create", "identity"}

\* a disconnected client whose configuration allows no retry
\* (KANBOARD_MAX_RETRIES=0): every call makes one attempt
ConcurrentInit ==
    /\ _client = None
    /\ _connected = FALSE
    /\ max_retries = 0
    /\ call = [c \in Callers |-> Idle]
    /\ env = EmbeddedEnv(max_retries)
    /\ config = load_config(env).config
    /\ proc = Process("embedded")

\* a thread calls call_api("get_all_projects"), whatever the other threads
\* are doing
ConcurrentCallApi(c) ==
    /\ call[c].pc = "idle"
    /\ call' = [call EXCEPT ![c] =
          Execute([Idle EXCEPT !.op = "call_api"], "get_all_projects")]
    /\ UNCHANGED <<_client, _connected, max_retries, env, config, proc>>

\* if not self.is_connected(): self.connect()
CheckConnected(c) ==
    /\ call[c].pc = "execute"
    /\ call' =
          IF is_connected(_client, _connected)
          THEN [call EXCEPT ![c] =
                  [@ EXCEPT !.pc = "loop", !.attempt = 0,
                            !.last_exception = NoRaw,
                            !.was_connected = TRUE,
                            !.had_client = TRUE]]
          ELSE [d \in Callers |->
                  IF d = c
                  THEN [call[c] EXCEPT
                          !.pc = "connect",
                          !.was_connected = FALSE,
                          !.had_client = (_client # None),
                          !.raced = \E e \in Racers \ {c} : InEntry(call[e])]
                  ELSE IF InEntry(call[d])
                  THEN [call[d] EXCEPT !.raced = TRUE]
                  ELSE call[d]]
    /\ UNCHANGED <<_client, _connected, max_retries, env, config, proc>>

\* connect: if self._connected and self._client: return
ConnectCheck(c) ==
    /\ call[c].pc = "connect"
    /\ call' = [call EXCEPT ![c] =
          IF _connected /\ _client # None
          THEN [@ EXCEPT !.pc = "loop", !.attempt = 0,
                         !.last_exception = NoRaw]
          ELSE [@ EXCEPT !.pc = "create"]]
    /\ UNCHANGED <<_client, _connected, max_retries, env, config, proc>>

\* faulty variant: a handle that is already stored is used, not replaced
ConnectCreate_ReusesHandle(c) ==
    /\ call[c].pc = "create"
    /\ \E create_ok \in BOOLEAN :
        IF _client # None
        THEN /\ call' = [call EXCEPT ![c] = [@ EXCEPT !.pc = "identity"]]
             /\ UNCHANGED _client
        ELSE IF create_ok
        THEN /\ _client' = HandleOf(c)
             /\ call' = [call EXCEPT ![c] =
                   [@ EXCEPT !.pc = "identity", !.creates = @ + 1]]
        ELSE /\ UNCHANGED _client
             /\ call' = [call EXCEPT ![c] =
                   ExecuteEnds([call[c] EXCEPT !.creates = @ + 1],
                               Raise(ConnectHandler(ConnectBody(FALSE, NoRaw))))]
    /\ UNCHANGED <<_connected, max_retries, env, config, proc>>

\* connect: self._client = self._create_client(); a failure to construct
\* leaves connect as KanboardConnectionError
ConnectCreate(c) ==
    /\ call[c].pc = "create"
    /\ \E create_ok \in BOOLEAN :
        IF create_ok
        THEN /\ _client' = HandleOf(c)
             /\ call' = [call EXCEPT ![c] =
                   [@ EXCEPT !.pc = "identity", !.creates = @ + 1]]
        ELSE /\ UNCHANGED _client
             /\ call' = [call EXCEPT ![c] =
                   ExecuteEnds([call[c] EXCEPT !.creates = @ + 1],
                               Raise(ConnectHandler(ConnectBody(FALSE, NoRaw))))]
    /\ UNCHANGED <<_connected, max_retries, env, config, proc>>

\* connect: result = self._client.get_me() up to the end of connect
ConnectIdentity(c) ==
    /\ call[c].pc = "identity"
    /\ \E getme \in RawOutcomes :
        LET x == ConnectBody(TRUE, getme)
            h == [call[c] EXCEPT !.identity_checks = @ + 1,
                                 !.identity = getme]
        IN
        /\ _connected' = IF ConnectSetsFlag(TRUE, getme) THEN TRUE
                         ELSE _connected
        /\ call' = [call EXCEPT ![c] =
              IF x = NoRaw
              THEN [h EXCEPT !.pc = "loop", !.attempt = 0,
                             !.last_exception = NoRaw]
              ELSE ExecuteEnds(h, Raise(ConnectHandler(x)))]
    /\ UNCHANGED <<_client, max_retries, env, config, proc>>

ConcurrentNext ==
    \E c \in Racers :
        \/ ConcurrentCallApi(c)
        \/ CheckConnected(c)
        \/ ConnectCheck(c)
        \/ ConnectCreate(c)
        \/ ConnectIdentity(c)
        \/ Attempt(c)
        \/ Delay(c)
        \/ Exhausted(c)
        \/ Finish(c)

ConcurrentSpec == ConcurrentInit /\ [][ConcurrentNext]_vars

----------------------------------------------------------------------------
(* Vocabulary of the properties *)

\* a failure raised by the remote/transport layer (kanboard.ClientError)
RemoteError(x) == x.tag = "raise" /\ x.exc = "kanboard.ClientError"

\* the message names an authentication rejection, whatever its case
AuthenticationRule(x) ==
    \E i \in DOMAIN x.msg : Lower(x.msg[i]) \in {"authentication", "unauthorized"}

\* the failure carries a status code in 400..499
ClientStatusRule(x) == x.code \in 400..499

\* every attempt of the running _execute_with_retry call failed with a
\* kind the loop retries, and the attempts are used up
AllAttemptsFailed(r) == r.remote_failures + r.unexpected_failures = max_retries + 1

----------------------------------------------------------------------------
(* Properties *)

\* C1: a single _execute_with_retry call invokes the requested transport
\* method at most max_retries + 1 times, whatever the transport answers.
C1_InvocationsBounded ==
    \A c \in Callers : call[c].invocations <= max_retries + 1

C1_Witness ==
    \E c \in Callers :
        /\ call[c].pc = "done"
        /\ call[c].op = "call_api"
        /\ max_retries = MaxRetriesBound
        /\ call[c].invocations = max_retries + 1
        /\ call[c].executed.kind = "raise"

\* C2: when the first attempt fails with a remote error whose message names
\* an authentication rejection, or whose status is in 400..499, the call
\* raises that kind after exactly one invocation, with no delay and no
\* reconnect, whatever max_retries is.
C2_TerminalKindsNotRetried ==
    \A c \in Callers :
        LET r == call[c] IN
        (RemoteError(r.first)
            /\ (AuthenticationRule(r.first) \/ ClientStatusRule(r.first)))
        => /\ r.pc = "done"
           /\ r.executed.kind = "raise"
           /\ r.executed.error.cls =
                 (IF AuthenticationRule(r.first)
                  THEN "KanboardAuthenticationError" ELSE "KanboardAPIError")
           /\ r.invocations = 1
           /\ r.sleeps = 0
           /\ r.reconnects = 0
           /\ r.creates = (IF r.was_connected THEN 0 ELSE 1)

C2_Witness ==
    \E c \in Callers :
        /\ call[c].pc = "done"
        /\ max_retries = MaxRetriesBound
        /\ RemoteError(call[c].first)
        /\ AuthenticationRule(call[c].first)
        /\ call[c].executed.error.cls = "KanboardAuthenticationError"
        /\ call[c].invocations = 1

\* C3: every attempt that fails with a connection-class failure (a remote
\* error that is neither an authentication rejection nor a 4xx) is followed
\* by exactly one reconnect, and an attempt that fails with an unexpected
\* failure by none: the reconnects made are as many as the connection-class
\* failures seen.
C3_OneReconnectPerConnectionFailure ==
    \A c \in Callers : call[c].reconnects = call[c].remote_failures

\* C4: when the first k attempts fail with connection-class failures and
\* attempt k + 1 succeeds, the call returns that value after exactly k + 1
\* invocations and exactly k reconnects.
C4_SuccessAfterConnectionFailures ==
    \A c \in Callers :
        LET r == call[c] IN
        (r.executed.kind = "return" /\ r.unexpected_failures = 0)
        => /\ r.invocations = r.remote_failures + 1
           /\ r.invocations = r.attempt + 1
           /\ r.reconnects = r.remote_failures

\* C5: when every one of the max_retries + 1 attempts fails with a retryable
\* kind, the error raised names the method and reports max_retries + 1
\* attempts.
C5_ExhaustionNamesMethodAndCount ==
    \A c \in Callers :
        LET r == call[c] IN
        (r.executed.kind = "raise" /\ AllAttemptsFailed(r))
        => /\ r.executed.error.method = r.method
           /\ r.executed.error.attempts = max_retries + 1
           /\ r.invocations = max_retries + 1

C5_Witness ==
    \E c \in Callers :
        /\ call[c].executed.kind = "raise"
        /\ AllAttemptsFailed(call[c])
        /\ max_retries >= 1
        /\ call[c].remote_failures >= 1
        /\ call[c].unexpected_failures >= 1
        /\ call[c].executed.error.attempts = max_retries + 1

\* C6 as stated: every error _execute_with_retry raises identifies the method
\* name and the attempt count, the errors raised at once for authentication
\* and 4xx failures included.
C6_EveryErrorNamesMethodAndCount ==
    \A c \in Callers :
        LET r == call[c] IN
        r.executed.kind = "raise"
        => /\ r.executed.error.method = r.method
           /\ r.executed.error.attempts >= 1

\* C6 as amended: a call that ended either returned or raised; the error
\* raised identifies the method name and the attempt count exactly when the
\* attempts are used up, and otherwise (an authentication or 4xx failure
\* raised at once, a failed initial connect) carries only the message of the
\* failure underneath.
C6_OnlyExhaustionNamesMethodAndCount ==
    \A c \in Callers :
        LET r == call[c] IN
        /\ (r.pc = "done" /\ r.op \notin {"connect", "disconnect", "is_connected"})
           => r.executed.kind \in {"return", "raise"}
        /\ r.executed.kind = "raise"
           => IF AllAttemptsFailed(r)
              THEN /\ r.executed.error.method = r.method
                   /\ r.executed.error.attempts = max_retries + 1
              ELSE /\ r.executed.error.method = "-"
                   /\ r.executed.error.attempts = 0
                   /\ r.executed.error.cause # <<>>

C6_Witness ==
    \E c \in Callers :
        /\ call[c].pc = "done"
        /\ call[c].executed.kind = "raise"
        /\ call[c].executed.error.cls \in {"KanboardAuthenticationError", "KanboardAPIError"}
        /\ call[c].invocations = 1
        /\ max_retries >= 1
        /\ call[c].executed.error.method = "-"

\* C7: connect() on a disconnected client whose identity check returns null
\* raises KanboardAuthenticationError, after one identity check, and leaves
\* the client not connected.
C7_NullIdentityIsAuthenticationError ==
    \A c \in Callers :
        LET r == call[c] IN
        (r.op = "connect" /\ r.pc = "done" /\ ~r.was_connected
            /\ r.identity = Returned("null"))
        => /\ r.out.kind = "raise"
           /\ r.out.error.cls = "KanboardAuthenticationError"
           /\ r.identity_checks = 1
           /\ ~is_connected(_client, _connected)

\* C8 as stated: a remote failure that carries a 401 or 403 status is raised
\* as KanboardAuthenticationError, whatever its message.
C8_StatusClassifiedAsAuthentication ==
    \A c \in Callers :
        LET r == call[c] IN
        (RemoteError(r.last_exception) /\ r.last_exception.code \in {401, 403})
        => /\ r.executed.kind = "raise"
           /\ r.executed.error.cls = "KanboardAuthenticationError"

\* C8 as amended: a remote failure that carries a 401 or 403 status is raised
\* at once; as KanboardAuthenticationError only when its message names an
\* authentication rejection, and as KanboardAPIError otherwise.
C8_StatusClassifiedByMessage ==
    \A c \in Callers :
        LET r == call[c] IN
        (RemoteError(r.last_exception) /\ r.last_exception.code \in {401, 403})
        => /\ r.executed.kind = "raise"
           /\ r.executed.error.cls =
                 (IF AuthenticationRule(r.last_exception)
                  THEN "KanboardAuthenticationError" ELSE "KanboardAPIError")

C8_Witness ==
    \E c \in Callers :
        /\ RemoteError(call[c].last_exception)
        /\ call[c].last_exception.code = 403
        /\ ~AuthenticationRule(call[c].last_exception)
        /\ call[c].executed.error.cls = "KanboardAPIError"

\* C9: test_connection never raises: a failure of the identity check or of
\* the connect before it comes back as connected = false with the error
\* message, a success as connected = true with the identity payload.
C9_TestConnectionNeverRaises ==
    \A c \in Callers :
        LET r == call[c] IN
        (r.op = "test_connection" /\ r.pc = "done")
        => /\ r.out.kind = "return"
           /\ r.api.kind = "raise"
              => /\ ~r.report.connected
                 /\ r.report.error = Str(r.api.error)
           /\ r.api.kind = "return"
              => /\ r.report.connected
                 /\ r.report.user = r.executed.value
           /\ r.api.kind # "none"
           /\ r.api.kind = r.executed.kind

C9_Witness ==
    \E c \in Callers :
        /\ call[c].op = "test_connection"
        /\ call[c].pc = "done"
        /\ ~call[c].was_connected
        /\ call[c].executed.kind = "raise"
        /\ call[c].executed.error.cls = "KanboardAuthenticationError"
        /\ call[c].invocations = 0
        /\ ~call[c].report.connected
        /\ call[c].out.kind = "return"

\* C10: get_server_info never raises: a failure of the identity check or of
\* the version query comes back as the error field of the returned dict.
C10_GetServerInfoNeverRaises ==
    \A c \in Callers :
        LET r == call[c] IN
        (r.op = "get_server_info" /\ r.pc = "done")
        => /\ r.out.kind = "return"
           /\ r.api.kind = "raise"
              => /\ r.report.error = Str(r.api.error)
                 /\ ~r.report.connected
           /\ r.api.kind # "none"
           /\ r.api.kind = r.executed.kind

C10_Witness ==
    \E c \in Callers :
        /\ call[c].op = "get_server_info"
        /\ call[c].pc = "done"
        /\ call[c].stage = 2
        /\ call[c].executed.kind = "raise"
        /\ call[c].report.error = Str(call[c].api.error)
        /\ call[c].out.kind = "return"

\* a caller's call of the operation op, from its start to its result, is
\* this step
Called(c, op) ==
    call[c].pc = "idle" /\ call'[c].pc = "done" /\ call'[c].op = op

\* C11: disconnect never fails and leaves no handle and the flag false; on a
\* client that is already disconnected it changes nothing.
C11_DisconnectClearsAndIsIdempotent ==
    [][\A c \in Callers :
          Called(c, "disconnect")
          => /\ _client' = None
             /\ ~_connected'
             /\ call'[c].out = Return("null")
             /\ (_client = None /\ ~_connected)
                => UNCHANGED <<_client, _connected, max_retries>>]_vars

C11_Witness ==
    \E c \in Callers :
        /\ call[c].op = "disconnect"
        /\ call[c].pc = "done"
        /\ ~call[c].had_client
        /\ ~call[c].was_connected
        /\ _client = None
        /\ ~_connected

\* C12: connect on a connected client constructs no handle, issues no
\* identity check and leaves the handle and the flag as they were.
C12_ConnectWhenConnectedIsNoOp ==
    [][\A c \in Callers :
          (Called(c, "connect") /\ _connected /\ _client # None)
          => /\ UNCHANGED <<_client, _connected>>
             /\ call'[c].creates = 0
             /\ call'[c].identity_checks = 0
             /\ call'[c].out = Return("null")]_vars

C12_Witness ==
    \E c \in Callers :
        /\ call[c].op = "connect"
        /\ call[c].pc = "done"
        /\ call[c].was_connected
        /\ call[c].creates = 0
        /\ is_connected(_client, _connected)

\* C13: is_connected returns true exactly when a handle exists and the flag
\* is set, and changes no state of the client.
C13_IsConnectedIsPureQuery ==
    [][\A c \in Callers :
          Called(c, "is_connected")
          => /\ UNCHANGED <<_client, _connected, max_retries>>
             /\ (call'[c].out = Return("True")) <=> (_client # None /\ _connected)
             /\ call'[c].out \in {Return("True"), Return("False")}]_vars

C13_Witness ==
    \E c \in Callers :
        /\ call[c].op = "is_connected"
        /\ call[c].pc = "done"
        /\ call[c].had_client
        /\ ~_connected
        /\ call[c].out = Return("False")

\* the initial connect of the running _execute_with_retry call was made and
\* failed: the handle was not constructed, or the identity check raised or
\* returned null
InitialConnectFailed(r) ==
    /\ r.creates = 1
    /\ ~r.was_connected
    /\ \/ r.identity = NoRaw
       \/ r.identity.tag = "raise"
       \/ r.identity = Returned("null")
       \/ r.identity = Returned("false")

\* C14: when _execute_with_retry is called on a disconnected client and the
\* initial connect fails, connect's error reaches the caller at once: the
\* requested method is never invoked, connect is attempted once, no delay.
C14_InitialConnectFailurePropagates ==
    \A c \in Callers :
        LET r == call[c] IN
        (r.op \notin {"connect", "disconnect", "is_connected"}
            /\ InitialConnectFailed(r))
        => /\ r.executed.kind = "raise"
           /\ r.executed.error.cls \in {"KanboardAuthenticationError",
                                        "KanboardConnectionError"}
           /\ r.executed.error.text \in {"Authentication failed",
                                         "Connection failed"}
           /\ r.invocations = 0
           /\ r.sleeps = 0
           /\ r.attempt = 0
           /\ r.identity_checks <= 1
           /\ r.pc = "done"

C14_Witness ==
    \E c \in Callers :
        /\ call[c].op = "call_api"
        /\ InitialConnectFailed(call[c])
        /\ call[c].identity.tag = "raise"
        /\ max_retries = MaxRetriesBound
        /\ call[c].out.kind = "raise"
        /\ call[c].invocations = 0

\* the four error kinds of the client
ErrorKinds ==
    {"KanboardConnectionError", "KanboardAuthenticationError",
     "KanboardAPIError", "KanboardClientError"}

\* C15: call_api returns the raw result of the remote call or raises an
\* error of one of the four kinds; no exception of another type leaves it.
C15_CallApiRaisesOnlyTheFourKinds ==
    \A c \in Callers :
        LET r == call[c] IN
        (r.op = "call_api" /\ r.pc = "done")
        => \/ /\ r.out.kind = "return"
              /\ r.executed.kind = "return"
              /\ r.out.value = r.executed.value
              /\ Returned(r.out.value) \in RawOutcomes
           \/ /\ r.out.kind = "raise"
              /\ r.executed.kind = "raise"
              /\ r.out.error.cls \in ErrorKinds

C15_Witness ==
    \E c \in Callers :
        /\ call[c].op = "call_api"
        /\ call[c].pc = "done"
        /\ call[c].executed.kind = "raise"
        /\ call[c].executed.error.cls \notin ErrorKinds
        /\ call[c].out.kind = "raise"
        /\ call[c].out.error.cls = "KanboardClientError"

----------------------------------------------------------------------------
(* The configuration and the process *)

\* the last piece of a URL is a slash
TrailingSlash(u) == Len(u) >= 1 /\ u[Len(u)] = "/"

\* a URL ends with the RPC suffix '/jsonrpc.php'
HasRpcSuffix(u) ==
    Len(u) >= 2 /\ u[Len(u) - 1] = "/" /\ u[Len(u)] = "jsonrpc.php"

\* C17: when the configuration is loaded, a URL without the RPC suffix and
\* without a trailing slash has become the URL, one slash and jsonrpc.php;
\* a URL with a trailing slash has got jsonrpc.php and no second slash; a
\* URL that ended with the suffix is unchanged; and normalizing the loaded
\* URL again leaves it as it is.
C17_UrlNormalization ==
    config.loaded =>
        /\ (~HasRpcSuffix(env.url) /\ ~TrailingSlash(env.url))
              => config.url = env.url \o <<"/">> \o <<"jsonrpc.php">>
        /\ (~HasRpcSuffix(env.url) /\ TrailingSlash(env.url))
              => config.url = env.url \o <<"jsonrpc.php">>
        /\ HasRpcSuffix(env.url) => config.url = env.url
        /\ validate_url(config.url).ok
        /\ validate_url(config.url).value = config.url

\* a URL with a trailing slash (not the one of the scheme alone) was loaded
C17_Witness ==
    /\ config.loaded
    /\ TrailingSlash(env.url)
    /\ Len(env.url) > 3
    /\ Len(config.url) = Len(env.url) + 1
    /\ proc.phase = "serving"


\* nothing of the network has been touched: no handle exists and no thread
\* has started an operation of the client
NoNetworkActivity ==
    /\ _client = None
    /\ ~_connected
    /\ \A c \in Callers : call[c] = Idle

\* C18: with an empty token in the environment, loading the configuration
\* raises a configuration error, and up to and after the error no handle is
\* constructed and no remote call is made: main never gets past load_config.
C18_EmptySecretFailsBeforeNetwork ==
    env.password = "" =>
        /\ proc.phase \in {"main", "exited"}
        /\ ~config.loaded
        /\ NoNetworkActivity
        /\ proc.phase = "exited" => proc.message = "Configuration error"

\* the empty token is the only thing wrong, and the process has ended on it
C18_Witness ==
    /\ env.password = ""
    /\ load_config([env EXCEPT !.password = "token"]).error = "-"
    /\ proc.phase = "exited"
    /\ proc.message = "Configuration error"
    /\ NoNetworkActivity

\* the conditions under which a configuration is accepted
Acceptable(e) ==
    /\ e.url # <<>>
    /\ Len(e.url) >= 3
    /\ e.url[1] \in {"http:", "https:"}
    /\ e.url[2] = "/" /\ e.url[3] = "/"
    /\ e.password # ""
    /\ e.timeout > 0
    /\ e.max_retries >= 0
    /\ e.retry_delay >= 0

\* C19: a configuration is loaded only from an environment whose URL is
\* non-empty with scheme http or https, whose token is non-empty, whose
\* timeout is positive and whose retry count and retry delay are not
\* negative; with any of these violated, load_config raises a configuration
\* error and the process exits with a non-zero status.
C19_OnlyValidConfigurationAccepted ==
    /\ config.loaded => Acceptable(env)
    /\ (~Acceptable(env) /\ proc.phase # "main") =>
          /\ proc.phase = "exited"
          /\ proc.status # 0
          /\ proc.message = "Configuration error"

\* a timeout of zero is the only thing wrong, and the process has ended on it
C19_Witness ==
    /\ env.timeout = 0
    /\ Acceptable([env EXCEPT !.timeout = 30])
    /\ proc.phase = "exited"
    /\ proc.status # 0

\* the process has ended on a configuration error
ConfigurationErrorExit == proc.phase = "exited" /\ ~config.loaded

\* the process has ended on a failed startup connection test
ConnectionFailureExit ==
    /\ proc.phase = "exited"
    /\ config.loaded
    /\ call[MainThread].op = "test_connection"
    /\ ~call[MainThread].report.connected

\* C20 as stated: the exit status of a configuration error differs from the
\* exit status of an initial-connection failure. The code does not do this.
C20_ExitStatusDiffersByCategory ==
    /\ ConnectionFailureExit => proc.status # main_except("ValueError").status
    /\ ConfigurationErrorExit
          => proc.status # main_except("ConnectionError").status

\* C20: a configuration error and a failed startup connection test both end
\* the process, before any tool is served, with a non-zero exit status; the
\* status is the same for the two categories, which differ in the message.
C20_BothFatalWithTheSameStatus ==
    /\ proc.phase \in {"loaded", "created", "running", "serving"}
          => config.loaded
    /\ proc.phase = "serving" => call[MainThread].report.connected
    /\ proc.phase = "exited" =>
          /\ ConfigurationErrorExit \/ ConnectionFailureExit
          /\ proc.status # 0
          /\ proc.status = ExitConfigurationError
          /\ proc.status = ExitConnectionError
          /\ ConfigurationErrorExit => proc.message = "Configuration error"
          /\ ConnectionFailureExit => proc.message = "Connection error"

\* the startup connection test failed after its retries and the process
\* has ended with the status of a configuration error
C20_Witness ==
    /\ ConnectionFailureExit
    /\ call[MainThread].invocations > 0
    /\ proc.status = main_except("ValueError").status
    /\ proc.message = "Connection error"

----------------------------------------------------------------------------
(* The session and the retry loop, continued *)

\* the running _execute_with_retry call of r ended on the raise of line 118:
\* a transport attempt was rejected as an authentication failure
AuthenticationRaisedInLoop(r) ==
    /\ r.pc = "done"
    /\ r.invocations >= 1
    /\ RemoteError(r.last_exception)
    /\ AuthenticationRule(r.last_exception)
    /\ r.executed.kind = "raise"
    /\ r.executed.error.cls = "KanboardAuthenticationError"

C22_ExhaustionKindFollowsLastFailure ==
    \A c \in Callers :
        LET r == call[c] IN
        (r.pc = "done" /\ r.executed.kind = "raise" /\ r.invocations >= 1)
        => /\ (AllAttemptsFailed(r) /\ RemoteError(r.last_exception))
                => r.executed.error.cls = "KanboardConnectionError"
           /\ (AllAttemptsFailed(r) /\ ~RemoteError(r.last_exception))
                => r.executed.error.cls = "KanboardClientError"
           /\ r.invocations > 1 => r.executed.error.cls # "KanboardAPIError"

Min(a, b) == IF a <= b THEN a ELSE b

\* C24: _execute_with_retry sleeps only between attempts: a delay follows a
\* failed attempt only when its index is below max_retries. So the delays
\* made are as many as the failed attempts, but never more than max_retries:
\* a call that uses up its attempts has slept max_retries times, and a call
\* whose first attempt succeeds has not slept.
C24_DelaysOnlyBetweenAttempts ==
    \A c \in Callers :
        LET r == call[c]
            failures == r.remote_failures + r.unexpected_failures
        IN
        /\ r.sleeps <= max_retries
        /\ r.pc \in {"loop", "done"} => r.sleeps = Min(failures, max_retries)
        /\ r.pc = "delay" => r.sleeps = r.attempt
        /\ (r.pc = "done" /\ AllAttemptsFailed(r)) => r.sleeps = max_retries
        /\ r.first.tag = "ok" => r.sleeps = 0

\* a call used up its attempts and slept between them, not after the last
C24_Witness ==
    \E c \in Callers :
        /\ call[c].pc = "done"
        /\ max_retries = MaxRetriesBound
        /\ AllAttemptsFailed(call[c])
        /\ call[c].invocations = max_retries + 1
        /\ call[c].sleeps = max_retries

\* C25: a remote failure that matches the authentication rule and also has
\* a status in 400..499 is raised as the authentication error, never as
\* the API error: the message is tested first.
C25_AuthenticationRuleWinsOverStatus ==
    \A c \in Callers :
        LET r == call[c] IN
        (r.pc = "done" /\ r.invocations >= 1 /\ r.executed.kind = "raise"
            /\ RemoteError(r.last_exception)
            /\ AuthenticationRule(r.last_exception)
            /\ ClientStatusRule(r.last_exception))
        => /\ r.executed.error.cls = "KanboardAuthenticationError"
           /\ r.executed.error.text = "Authentication failed"
           /\ r.executed.error.cls # "KanboardAPIError"

\* a failure with both marks ended a call
C25_Witness ==
    \E c \in Callers :
        /\ call[c].pc = "done"
        /\ call[c].last_exception =
              Raised("kanboard.ClientError", <<"AUTHENTICATION", "required">>, 401)
        /\ call[c].executed.error.cls = "KanboardAuthenticationError"

\* a remote error without an authentication keyword whose status is absent
\* (no code attribute) or a number outside 400..499
Retryable(x) ==
    /\ RemoteError(x)
    /\ ~AuthenticationRule(x)
    /\ \/ x.code = NoCode
       \/ (x.code >= 0 /\ ~ClientStatusRule(x))

StartupTestOver ==
    /\ call[MainThread].op = "test_connection"
    /\ call[MainThread].pc = "done"
    /\ proc.phase # "running"

\* C27: the server serves tools only after the startup connection test has
\* reported connected = true; when the test reports connected = false, the
\* serving of tools does not start and the process exits with a non-zero
\* status.
C27_ServesOnlyAfterConnectionTest ==
    /\ proc.phase = "serving"
          => /\ StartupTestOver
             /\ call[MainThread].report.connected
             /\ call[MainThread].api.kind = "return"
    /\ (StartupTestOver /\ ~call[MainThread].report.connected)
          => /\ proc.phase = "exited"
             /\ proc.status # 0
    /\ proc.phase \in {"main", "loaded", "created"}
          => call[MainThread].pc = "idle"

\* the startup test failed on a rejected identity check and the process
\* has ended without serving
C27_Witness ==
    /\ StartupTestOver
    /\ ~call[MainThread].report.connected
    /\ call[MainThread].invocations = 0
    /\ call[MainThread].executed.error.cls = "KanboardAuthenticationError"
    /\ proc.phase = "exited"
    /\ proc.status # 0

\* C28: the handle connect() constructs is given the configured timeout, so
\* every invocation made through it carries that timeout. The code does not
\* pass it.
C28_HandleCarriesTimeout ==
    /\ _client # None
          => /\ "timeout" \in DOMAIN ClientArguments(config)
             /\ ClientArguments(config)["timeout"] = config.timeout
    /\ \A c \in Callers :
          call[c].invocations >= 1
          => "timeout" \in DOMAIN ClientArguments(config)

\* a connect() made by, or on behalf of, the operation of r raised
ConnectFailed(r) ==
    /\ r.pc = "done"
    /\ r.creates = 1
    /\ \/ r.op = "connect" /\ r.out.kind = "raise"
       \/ /\ r.op \notin {"connect", "disconnect", "is_connected"}
          /\ r.invocations = 0
          /\ r.executed.kind = "raise"

\* C29: in every state reached by serialized calls of connect, disconnect,
\* call_api, test_connection and get_server_info, the flag is set only if a
\* handle exists, and a connect() that raised has not left the flag set.
C29_FlagImpliesHandleAndFailedConnectClearsIt ==
    /\ _connected => _client # None
    /\ \A c \in Callers : ConnectFailed(call[c]) => ~_connected

\* C30: a transport method that returns None without raising is a success
\* of _execute_with_retry: None goes to the caller on that attempt, with no
\* further invocation, no delay, no reconnect and no error; a None result
\* of the identity check inside connect() makes connect fail.
C30_NullResultIsSuccess ==
    \A c \in Callers :
        LET r == call[c] IN
        /\ r.first = Returned("null")
              => /\ r.executed = Return("null")
                 /\ r.api = Return("null")
                 /\ r.invocations = 1
                 /\ r.sleeps = 0
                 /\ r.reconnects = 0
                 /\ r.remote_failures + r.unexpected_failures = 0
        /\ (r.identity = Returned("null") /\ r.pc = "done")
              => /\ r.invocations = 0
                 /\ (r.op = "connect" => r.out.kind = "raise")
                 /\ (r.op # "connect" => r.executed.kind = "raise")
                 /\ ~_connected

\* get_me returned a user to connect() and None to the call that followed
C30_Witness ==
    \E c \in Callers :
        /\ call[c].pc = "done"
        /\ call[c].op = "call_api"
        /\ call[c].method = "get_me"
        /\ call[c].identity = Returned("payload")
        /\ call[c].first = Returned("null")
        /\ call[c].out = Return("null")

----------------------------------------------------------------------------
(* get_server_info as a whole *)

\* C31: get_server_info is all or nothing. When the identity check returned
\* and the version query then failed, the dict has connected = false and
\* None for both user_info and server_version: the identity payload is
\* dropped. It has connected = true, with both values, only when both
\* calls returned.
C31_GetServerInfoAllOrNothing ==
    \A c \in Callers :
        LET r == call[c] IN
        (r.op = "get_server_info" /\ r.pc = "done")
        => /\ (r.stage = 2 /\ r.api.kind = "raise")
                => /\ r.report.connected = FALSE
                   /\ r.report.user_info = "null"
                   /\ r.report.server_version = "null"
                   /\ r.report.error = Str(r.api.error)
           /\ r.report.connected
                => /\ r.stage = 2
                   /\ r.api.kind = "return"
                   /\ r.method = "get_version"
                   /\ r.report.server_version = r.api.value
                   /\ r.report.user_info = r.user_info
           /\ (r.stage = 2 /\ r.api.kind = "return") => r.report.connected
           /\ r.stage = 1 => (r.api.kind = "raise" /\ ~r.report.connected)

\* the identity check returned a user, the version query used up its
\* attempts, and the dict holds nothing of the user
C31_Witness ==
    \E c \in Callers :
        /\ call[c].op = "get_server_info"
        /\ call[c].pc = "done"
        /\ call[c].stage = 2
        /\ call[c].user_info = "payload"
        /\ call[c].api.kind = "raise"
        /\ call[c].invocations = max_retries + 1
        /\ call[c].report.connected = FALSE
        /\ call[c].report.user_info = "null"

----------------------------------------------------------------------------
(* Concurrent calls on one client *)

\* the call of r took the client from disconnected to connected: it
\* constructed a handle, issued the identity check and set the flag
ConnectedBy(r) ==
    /\ ~r.was_connected
    /\ r.creates = 1
    /\ r.identity_checks = 1
    /\ ConnectSetsFlag(TRUE, r.identity)

\* C32: nothing locks the client. Every call that finds it not connected at
\* both checks constructs a handle of its own and issues an identity check
\* of its own, whatever handle another call has stored meanwhile; so two
\* calls that are in that section at the same time make two constructions
\* and two identity checks, the later handle replacing the earlier. Two
\* calls both connect the client only when they raced: a call that ran the
\* section alone made the one construction and the one identity check, and
\* its handle is the one stored.
C32_UnlockedConnectRaces ==
    \A c \in Callers :
        LET r == call[c] IN
        /\ r.pc = "create" => (r.creates = 0 /\ ~r.was_connected)
        /\ r.pc = "identity"
              => /\ r.creates = 1
                 /\ r.identity_checks = 0
                 /\ _client # None
        /\ r.creates <= 1 /\ r.identity_checks <= r.creates
        /\ (ConnectedBy(r) /\ ~r.raced)
              => /\ _client = HandleOf(c)
                 /\ _connected
        /\ \A d \in Callers \ {c} :
              (ConnectedBy(r) /\ ConnectedBy(call[d]))
              => (r.raced /\ call[d].raced)

\* two calls found the client disconnected, each constructed a handle and
\* had its identity check answered, and the client holds the handle of one
\* of them: the other handle is lost, and both calls went on to the loop
C32_Witness ==
    \E c \in Callers, d \in Callers :
        /\ c # d
        /\ ConnectedBy(call[c])
        /\ ConnectedBy(call[d])
        /\ call[c].identity = Returned("payload")
        /\ call[d].identity = Returned("payload")
        /\ call[c].raced /\ call[d].raced
        /\ _client = HandleOf(d)
        /\ _connected
        /\ call[c].invocations = 1
        /\ call[d].invocations = 1

====
